---- MODULE Spec2Model ----
(***************************************************************************)
(* Model of src/main.cpp: the overlap graph (class Graph), the exhaustive  *)
(* depth-first search for the longest simple paths (class LongestPath),    *)
(* and the progress thread that find_longest_paths runs beside the search. *)
(*                                                                         *)
(* A code is a 6-character string of digits; it is modelled as a tuple of  *)
(* 6 digits so that substr() is a real operation on its characters.        *)
(***************************************************************************)
EXTENDS Integers, Sequences, FiniteSets, TLC

\* ---------------------------------------------------------------- bounds
\* longest input sequence (vector<string> numbers) that is explored
MaxLen == 3

\* the codes the input is drawn from
c111122 == <<1, 1, 1, 1, 2, 2>>
c221111 == <<2, 2, 1, 1, 1, 1>>
c221133 == <<2, 2, 1, 1, 3, 3>>
c111111 == <<1, 1, 1, 1, 1, 1>>
c123456 == <<1, 2, 3, 4, 5, 6>>
c567890 == <<5, 6, 7, 8, 9, 0>>
Codes == {c111122, c221111, c221133, c111111, c123456, c567890}

Inputs == UNION {[1..k -> Codes] : k \in 0..MaxLen}

VARIABLES
    numbers,        \* main: vector<string> numbers (validated input)
    adj_list,       \* Graph::adj_list, a map code -> sequence of codes
    vertices,       \* find_longest_paths: auto vertices = graph.get_vertices()
    vi,             \* position of the range-for over vertices (1-based)
    stack,          \* the call stack of LongestPath::dfs
    current_path,   \* LongestPath::current_path
    longest_paths,  \* LongestPath::longest_paths
    visited,        \* LongestPath::visited, a map code -> bool
    max_length,     \* LongestPath::max_length
    m_pc,           \* position of the main thread
    is_searching,   \* atomic<bool> is_searching
    mtx,            \* owner of mutex mtx: "free", "main" or "progress"
    p_pc,           \* position of progress_thread
    expired,        \* the 15 s of the current wait_for have elapsed
    run,            \* which execution of the program this is (1 or 2)
    prev            \* result of the previous execution

vars == <<numbers, adj_list, vertices, vi, stack, current_path, longest_paths,
          visited, max_length, m_pc, is_searching, mtx, p_pc, expired,
          run, prev>>

searchVars == <<vertices, vi, stack, current_path, longest_paths, visited,
                max_length>>
threadVars == <<is_searching, mtx, p_pc, expired>>

\* ------------------------------------------------------------ helpers
Range(s) == {s[i] : i \in 1..Len(s)}

\* an empty unordered_map
EmptyMap == [k \in {} |-> FALSE]

\* map[k] = val, inserting the key when it is absent
Put(map, k, val) ==
    [x \in (DOMAIN map) \cup {k} |-> IF x = k THEN val ELSE map[x]]

\* visited[k]: operator[] value-initialises a missing key to false
Touch(map, k) == IF k \in DOMAIN map THEN map ELSE Put(map, k, FALSE)

\* from.substr(from.size() - 2)
Suffix2(s) == SubSeq(s, Len(s) - 1, Len(s))

\* to.substr(0, 2)
Prefix2(s) == SubSeq(s, 1, 2)

\* ------------------------------------------------------------ Graph
\* mutation of the edge test: compares the two prefixes
Overlaps_prefix(from, to) == from # to /\ Prefix2(from) = Prefix2(to)

\* mutation of the edge test: the test from != to is missing
Overlaps_self(from, to) == Suffix2(from) = Prefix2(to)

\* the test of build_graph, line 34
Overlaps(from, to) == from # to /\ Suffix2(from) = Prefix2(to)

\* Graph::add_edge: adj_list[from].push_back(to)
add_edge(adj, from, to) ==
    Put(adj, from, IF from \in DOMAIN adj THEN Append(adj[from], to) ELSE <<to>>)

\* the inner loop of build_graph for one `from`, over numbers[j..]
RECURSIVE BuildInner(_, _, _, _)
BuildInner(adj, nums, from, j) ==
    IF j > Len(nums) THEN adj
    ELSE BuildInner(IF Overlaps(from, nums[j]) THEN add_edge(adj, from, nums[j])
                    ELSE adj,
                    nums, from, j + 1)

\* the outer loop of build_graph, over numbers[i..]
RECURSIVE BuildOuter(_, _, _)
BuildOuter(adj, nums, i) ==
    IF i > Len(nums) THEN adj
    ELSE BuildOuter(BuildInner(adj, nums, nums[i], 1), nums, i + 1)

build_graph(nums) == BuildOuter(EmptyMap, nums, 1)

\* Graph::get_neighbors
get_neighbors(adj, vertex) ==
    IF vertex \in DOMAIN adj THEN adj[vertex] ELSE <<>>

\* Graph::get_vertices: the keys of adj_list in the iteration order of the
\* unordered_map, which is any order
VertexOrders(adj) ==
    {s \in [1..Cardinality(DOMAIN adj) -> DOMAIN adj] :
        \A i, j \in DOMAIN s : i # j => s[i] # s[j]}

\* ------------------------------------------------------------ LongestPath
\* the codes marked true in visited
Marked(vis) == {k \in DOMAIN vis : vis[k]}

\* mutation of the update rule: a new maximum does not clear the old paths
UpdateLongest_noclear(path, ml, lp) ==
    IF Len(path) > ml
    THEN [max_length |-> Len(path), longest_paths |-> Append(lp, path)]
    ELSE IF Len(path) = ml
         THEN [max_length |-> ml, longest_paths |-> Append(lp, path)]
         ELSE [max_length |-> ml, longest_paths |-> lp]

\* mutation of the update rule: a tie is not recorded
UpdateLongest_noties(path, ml, lp) ==
    IF Len(path) > ml
    THEN [max_length |-> Len(path), longest_paths |-> <<path>>]
    ELSE [max_length |-> ml, longest_paths |-> lp]

\* the update rule of dfs, lines 76-84
UpdateLongest(path, ml, lp) ==
    IF Len(path) > ml
    THEN [max_length |-> Len(path), longest_paths |-> <<path>>]
    ELSE IF Len(path) = ml
         THEN [max_length |-> ml, longest_paths |-> Append(lp, path)]
         ELSE [max_length |-> ml, longest_paths |-> lp]

\* mutation of the first statement of dfs: the vertex is not marked
Mark_skip(vis, current) == Touch(vis, current)

\* visited[current] = true, line 72
Mark(vis, current) == Put(vis, current, TRUE)

\* mutation of the backtrack step: the vertex stays marked
Unmark_skip(vis, current) == vis

\* visited[current] = false, line 91
Unmark(vis, current) == Put(vis, current, FALSE)

\* the innermost call of dfs; a frame keeps at_entry, current_path and the
\* marked codes as they were when dfs was called
Top == stack[Len(stack)]
Pop(s) == SubSeq(s, 1, Len(s) - 1)

\* ------------------------------------------------------------ main thread
\* main, lines 224-225: Graph graph; graph.build_graph(numbers)
BuildGraph ==
    /\ m_pc = "build"
    /\ adj_list' = build_graph(numbers)
    /\ m_pc' = "spawn"
    /\ UNCHANGED <<numbers, searchVars, threadVars, run, prev>>

\* find_longest_paths, lines 100-110: the locals and the start of the thread
Spawn ==
    /\ m_pc = "spawn"
    /\ is_searching' = TRUE
    /\ mtx' = "free"
    /\ p_pc' = "start"
    /\ m_pc' = "get_vertices"
    /\ UNCHANGED <<numbers, adj_list, searchVars, expired, run, prev>>

\* find_longest_paths, line 112
GetVertices ==
    /\ m_pc = "get_vertices"
    /\ vertices' \in VertexOrders(adj_list)
    /\ vi' = 1
    /\ m_pc' = "loop"
    /\ UNCHANGED <<numbers, adj_list, stack, current_path, longest_paths,
                   visited, max_length, threadVars, run, prev>>

\* find_longest_paths, lines 113-117: one turn of the loop up to the call
StartVertex ==
    /\ m_pc = "loop"
    /\ vi <= Len(vertices)
    /\ visited' = EmptyMap
    /\ current_path' = <<>>
    /\ stack' = <<[v |-> vertices[vi], phase |-> "enter", i |-> 1,
                   at_entry |-> [path |-> <<>>, marked |-> {}]]>>
    /\ m_pc' = "dfs"
    /\ UNCHANGED <<numbers, adj_list, vertices, vi, longest_paths, max_length,
                   threadVars, run, prev>>

\* dfs, lines 72-84: mark, push, update rule
DfsEnter ==
    /\ m_pc = "dfs"
    /\ Top.phase = "enter"
    /\ LET path == Append(current_path, Top.v)
           upd == UpdateLongest(path, max_length, longest_paths)
       IN /\ visited' = Mark(visited, Top.v)
          /\ current_path' = path
          /\ max_length' = upd.max_length
          /\ longest_paths' = upd.longest_paths
    /\ stack' = [stack EXCEPT ![Len(stack)].phase = "iter"]
    /\ UNCHANGED <<numbers, adj_list, vertices, vi, m_pc, threadVars, run, prev>>

\* dfs, lines 87-89: one neighbor of the loop; visited[neighbor] inserts the
\* key, and an unvisited neighbor is entered
DfsNeighbor ==
    /\ m_pc = "dfs"
    /\ Top.phase = "iter"
    /\ Top.i <= Len(get_neighbors(adj_list, Top.v))
    /\ LET neighbor == get_neighbors(adj_list, Top.v)[Top.i]
           vis == Touch(visited, neighbor)
           advanced == [stack EXCEPT ![Len(stack)].i = Top.i + 1]
       IN /\ visited' = vis
          /\ stack' = IF ~vis[neighbor]
                      THEN Append(advanced,
                                  [v |-> neighbor, phase |-> "enter", i |-> 1,
                                   at_entry |-> [path |-> current_path,
                                                 marked |-> Marked(vis)]])
                      ELSE advanced
    /\ UNCHANGED <<numbers, adj_list, vertices, vi, current_path, longest_paths,
                   max_length, m_pc, threadVars, run, prev>>

\* dfs, lines 91-93: backtrack and return; a return to find_longest_paths
\* moves the loop to its next vertex
DfsReturn ==
    /\ m_pc = "dfs"
    /\ Top.phase = "iter"
    /\ Top.i > Len(get_neighbors(adj_list, Top.v))
    /\ visited' = Unmark(visited, Top.v)
    /\ current_path' = Pop(current_path)
    /\ stack' = Pop(stack)
    /\ IF Len(stack) = 1
       THEN m_pc' = "loop" /\ vi' = vi + 1
       ELSE UNCHANGED <<m_pc, vi>>
    /\ UNCHANGED <<numbers, adj_list, vertices, longest_paths, max_length,
                   threadVars, run, prev>>

\* find_longest_paths, lines 118-121: the loop ends, lock_guard takes mtx
MainLock ==
    /\ m_pc = "loop"
    /\ vi > Len(vertices)
    /\ mtx = "free"
    /\ mtx' = "main"
    /\ m_pc' = "clear"
    /\ UNCHANGED <<numbers, adj_list, searchVars, is_searching, p_pc, expired, run, prev>>

\* find_longest_paths, lines 122-123: clear the flag, leave the scope
MainClear ==
    /\ m_pc = "clear"
    /\ is_searching' = FALSE
    /\ mtx' = "free"
    /\ m_pc' = "notify"
    /\ UNCHANGED <<numbers, adj_list, searchVars, p_pc, expired, run, prev>>

\* find_longest_paths, line 124: cv.notify_one() wakes a thread that is
\* blocked in the wait, and does nothing when there is none
MainNotify ==
    /\ m_pc = "notify"
    /\ p_pc' = IF p_pc = "waiting" THEN "woken" ELSE p_pc
    /\ m_pc' = "join"
    /\ UNCHANGED <<numbers, adj_list, searchVars, is_searching, mtx, expired, run, prev>>

\* find_longest_paths, lines 126-129: join returns once the thread has ended
MainJoin ==
    /\ m_pc = "join"
    /\ p_pc = "done"
    /\ m_pc' = "done"
    /\ UNCHANGED <<numbers, adj_list, searchVars, threadVars, run, prev>>

\* ------------------------------------------------------------ progress thread
\* line 106: unique_lock<mutex> lock(mtx)
ProgressLock ==
    /\ p_pc = "start"
    /\ mtx = "free"
    /\ mtx' = "progress"
    /\ p_pc' = "check"
    /\ UNCHANGED <<numbers, adj_list, searchVars, m_pc, is_searching, expired, run, prev>>

\* lines 107-108: the loop test; wait_for releases mtx and blocks atomically;
\* leaving the loop ends the lambda, which releases mtx
ProgressCheck ==
    /\ p_pc = "check"
    /\ mtx' = "free"
    /\ p_pc' = IF is_searching THEN "waiting" ELSE "done"
    /\ expired' = FALSE
    /\ UNCHANGED <<numbers, adj_list, searchVars, m_pc, is_searching,
                   run, prev>>

\* the 15 seconds of the wait_for in progress elapse
ProgressExpire ==
    /\ p_pc \in {"waiting", "woken"}
    /\ ~expired
    /\ expired' = TRUE
    /\ UNCHANGED <<numbers, adj_list, searchVars, m_pc, is_searching, mtx, p_pc, run, prev>>

\* the blocked wait ends without a notification: on the timeout, or
\* spuriously, as a condition variable may
ProgressWake ==
    /\ p_pc = "waiting"
    /\ p_pc' = "woken"
    /\ UNCHANGED <<numbers, adj_list, searchVars, m_pc, is_searching, mtx,
                   expired, run, prev>>

\* line 108: wait_for takes mtx again and returns cv_status::timeout when
\* the time has elapsed, no_timeout otherwise
ProgressReacquire ==
    /\ p_pc = "woken"
    /\ mtx = "free"
    /\ mtx' = "progress"
    /\ p_pc' = IF expired THEN "print" ELSE "check"
    /\ expired' = FALSE
    /\ UNCHANGED <<numbers, adj_list, searchVars, m_pc, is_searching,
                   run, prev>>

\* line 109: "The program is still searching for the longest sequence..."
ProgressPrint ==
    /\ p_pc = "print"
    /\ p_pc' = "check"
    /\ UNCHANGED <<numbers, adj_list, searchVars, m_pc, is_searching, mtx,
                   expired, run, prev>>

\* ------------------------------------------------------------ a second execution
\* the orders in which the elements of a sequence can be arranged
Reorderings(s) ==
    {[i \in 1..Len(s) |-> s[f[i]]] :
        f \in {g \in [1..Len(s) -> 1..Len(s)] :
                 \A i, j \in 1..Len(s) : i # j => g[i] # g[j]}}

\* main, lines 224-230, executed once more on the same codes in another
\* order, with a new Graph and a new LongestPath; prev keeps the result of
\* the first execution: its max_length, its set of paths and the path it
\* listed first
Rerun ==
    /\ m_pc = "done"
    /\ run = 1
    /\ run' = 2
    /\ prev' = [max_length |-> max_length, paths |-> Range(longest_paths),
                first |-> IF longest_paths = <<>> THEN <<>> ELSE longest_paths[1]]
    /\ numbers' \in Reorderings(numbers)
    /\ adj_list' = EmptyMap
    /\ vertices' = <<>>
    /\ vi' = 1
    /\ stack' = <<>>
    /\ current_path' = <<>>
    /\ longest_paths' = <<>>
    /\ visited' = EmptyMap
    /\ max_length' = 0
    /\ m_pc' = "build"
    /\ is_searching' = TRUE
    /\ mtx' = "free"
    /\ p_pc' = "unborn"
    /\ expired' = FALSE

\* ------------------------------------------------------------ specification
Init ==
    /\ numbers \in Inputs
    /\ adj_list = EmptyMap
    /\ vertices = <<>>
    /\ vi = 1
    /\ stack = <<>>
    /\ current_path = <<>>
    /\ longest_paths = <<>>
    /\ visited = EmptyMap
    /\ max_length = 0
    /\ m_pc = "build"
    /\ is_searching = TRUE
    /\ mtx = "free"
    /\ p_pc = "unborn"
    /\ expired = FALSE
    /\ run = 1
    /\ prev = [max_length |-> 0, paths |-> {}, first |-> <<>>]

Next ==
    \/ BuildGraph
    \/ Spawn
    \/ GetVertices
    \/ StartVertex
    \/ DfsEnter
    \/ DfsNeighbor
    \/ DfsReturn
    \/ MainLock
    \/ MainClear
    \/ MainNotify
    \/ MainJoin
    \/ ProgressLock
    \/ ProgressCheck
    \/ ProgressExpire
    \/ ProgressWake
    \/ ProgressReacquire
    \/ ProgressPrint

Spec == Init /\ [][Next]_vars

NextRerun == Next \/ Rerun

\* the program executed twice on the same codes
SpecRerun == Init /\ [][NextRerun]_vars

\* ------------------------------------------------------------ reference notions
\* the distinct codes of the input
InputCodes == Range(numbers)

NoRepeat(p) == \A i, j \in 1..Len(p) : i # j => p[i] # p[j]

\* every consecutive pair of p chains by the 2-character overlap
Chained(p) == \A k \in 1..(Len(p) - 1) : Suffix2(p[k]) = Prefix2(p[k + 1])

\* every simple path of the overlap graph over the codes D
SimplePaths(D) ==
    {p \in UNION {[1..k -> D] : k \in 1..Cardinality(D)} :
        NoRepeat(p) /\ Chained(p)}

\* the largest vertex count of a simple path over D, 0 when D is empty
LongestLength(D) ==
    IF D = {} THEN 0
    ELSE CHOOSE n \in 1..Cardinality(D) :
            /\ \E p \in SimplePaths(D) : Len(p) = n
            /\ \A p \in SimplePaths(D) : Len(p) <= n

\* no two distinct codes of D overlap
Edgeless(D) == \A u, v \in D : u # v => Suffix2(u) # Prefix2(v)

Finished == m_pc = "done"

\* ------------------------------------------------------------ claims

\* C1: when find_longest_paths has returned, max_length is the largest vertex
\* count of a simple path over the distinct input codes (0 for empty input)
\* and the recorded paths are, as a set, all the simple paths of that count.
C1_AllLongestPaths ==
    Finished =>
        /\ max_length = LongestLength(InputCodes)
        /\ Range(longest_paths) =
               {p \in SimplePaths(InputCodes) : Len(p) = LongestLength(InputCodes)}

\* C2 as stated: the input [111122, 221111, 221133] ends with max_length 2
\* and exactly the two paths [111122, 221111] and [111122, 221133].
C2_ForkTieAsStated ==
    (Finished /\ numbers = <<c111122, c221111, c221133>>) =>
        /\ max_length = 2
        /\ Len(longest_paths) = 2
        /\ Range(longest_paths) = {<<c111122, c221111>>, <<c111122, c221133>>}

\* C2 amended: the input [111122, 221111, 221133] ends with max_length 3 and
\* exactly one path, [221111, 111122, 221133], because 221111 -> 111122 is an
\* edge as well.
C2_ForkActual ==
    (Finished /\ numbers = <<c111122, c221111, c221133>>) =>
        /\ max_length = 3
        /\ longest_paths = << <<c221111, c111122, c221133>> >>

C2_Witness == Finished /\ numbers = <<c111122, c221111, c221133>> /\ Len(vertices) = 2

\* C3: for a non-empty input in which no two distinct codes overlap,
\* get_vertices() returns exactly the distinct input codes and the search
\* ends with max_length 1 and one single-vertex path per distinct code.
C3_IsolatedCodes ==
    (Finished /\ numbers # <<>> /\ Edgeless(InputCodes)) =>
        /\ Range(vertices) = InputCodes
        /\ max_length = 1
        /\ Len(longest_paths) = Cardinality(InputCodes)
        /\ Range(longest_paths) = {<<c>> : c \in InputCodes}

\* C4: when find_longest_paths has returned, no vertex sequence appears twice
\* in longest_paths.
C4_DistinctPaths ==
    Finished => NoRepeat(longest_paths)

\* C5: after build_graph, for input codes u # v, v is among get_neighbors(u)
\* exactly when the last 2 characters of u are the first 2 of v; no code is
\* its own neighbor; a code without outgoing edge, or an unknown code, has
\* the empty neighbor sequence.
C5_EdgeCorrectness ==
    m_pc # "build" =>
        /\ \A u, v \in InputCodes :
               u # v => ((v \in Range(get_neighbors(adj_list, u)))
                            <=> (Suffix2(u) = Prefix2(v)))
        /\ \A u \in Codes : u \notin Range(get_neighbors(adj_list, u))
        /\ \A u \in Codes :
               (u \notin InputCodes
                    \/ \A v \in InputCodes \ {u} : Suffix2(u) # Prefix2(v))
               => get_neighbors(adj_list, u) = <<>>

\* an input with a self-overlapping code, an edge, a code without outgoing
\* edge and, outside it, an unknown code
C5_Witness ==
    /\ m_pc # "build"
    /\ {c111111, c111122, c221133} \subseteq InputCodes
    /\ get_neighbors(adj_list, c111111) = <<c111122>>
    /\ get_neighbors(adj_list, c221133) = <<>>
    /\ c123456 \notin InputCodes

\* every recorded path has max_length vertices, and one is recorded as soon
\* as max_length is positive
LengthConsistent ==
    /\ \A k \in 1..Len(longest_paths) : Len(longest_paths[k]) = max_length
    /\ max_length > 0 => longest_paths # <<>>

\* C6: every step of the search, the update rule included, leaves every path
\* of longest_paths with exactly max_length vertices and longest_paths
\* non-empty when max_length > 0, and never lowers max_length.
C6_LengthConsistency ==
    [][LengthConsistent' /\ max_length' >= max_length]_vars

\* in the middle of the search: ties are recorded and a longer path has
\* already replaced shorter ones
C6_Witness ==
    /\ m_pc = "dfs"
    /\ max_length >= 2
    /\ Len(longest_paths) >= 2
    /\ Len(current_path) < max_length

\* C7: every path recorded in longest_paths contains no code twice and each
\* consecutive pair (a, b) of it has the last 2 characters of a equal to the
\* first 2 characters of b.
C7_SimpleChains ==
    \A k \in 1..Len(longest_paths) :
        NoRepeat(longest_paths[k]) /\ Chained(longest_paths[k])

\* a finished search over an input that repeats a code and whose graph has
\* the cycle 111122 -> 221111 -> 111122
C7_Witness ==
    /\ Finished
    /\ ~NoRepeat(numbers)
    /\ {c111122, c221111} \subseteq InputCodes
    /\ max_length >= 2

\* C8: the second execution, on the same codes in any order and with any
\* enumeration order of the vertices, ends with the max_length and the set
\* of paths of the first execution.
C8_OrderIndependent ==
    (run = 2 /\ Finished) =>
        /\ max_length = prev.max_length
        /\ Range(longest_paths) = prev.paths

\* two executions that list different paths first and yet recorded several
C8_Witness ==
    /\ run = 2
    /\ Finished
    /\ Len(longest_paths) >= 2
    /\ longest_paths[1] # prev.first

\* C9: the progress thread is never left blocked in the wait with
\* is_searching false and the notification already spent; it prints no
\* "still searching" message once is_searching is false; and
\* find_longest_paths returns only after the progress thread has ended.
C9_HeartbeatCancellation ==
    [][/\ (p_pc' = "waiting" /\ ~is_searching') => m_pc' = "notify"
       /\ (p_pc = "print" /\ p_pc' # "print") => is_searching
       /\ m_pc' = "done" => p_pc' = "done"]_vars

\* the marked codes are the codes of current_path, which has no repeats
ScratchInSync ==
    /\ Marked(visited) = Range(current_path)
    /\ NoRepeat(current_path)

\* C10: at every step of the search the codes marked true in visited are
\* exactly the codes of current_path, which has no repeats; a return of dfs
\* leaves current_path and the marked codes as they were at its call; and the
\* exploration of a start vertex begins and ends with nothing marked and an
\* empty current_path.
C10_ScratchDiscipline ==
    [][/\ ScratchInSync'
       /\ Len(stack') < Len(stack) =>
              /\ current_path' = Top.at_entry.path
              /\ Marked(visited') = Top.at_entry.marked
       /\ ((m_pc = "loop" /\ m_pc' = "dfs") \/ (m_pc = "dfs" /\ m_pc' = "loop")) =>
              /\ current_path' = <<>>
              /\ Marked(visited') = {}]_vars

\* between two start vertices, after an exploration that went three deep
C10_Witness ==
    /\ m_pc = "loop"
    /\ 1 < vi
    /\ vi <= Len(vertices)
    /\ max_length >= 3
    /\ DOMAIN visited # {}

====
